---------------------------- MODULE Spec2Model ----------------------------
(***************************************************************************)
(* Model of UniversalChangeCalculator                                      *)
(* (src/time_dilation_visualizer/core/universal_change.py) and of the      *)
(* mu computation of BlackHoleSimulation (src/black_hole_simulation.py).   *)
(*                                                                         *)
(* Spec has every call made on a calculator as constructed, SpecSeq has    *)
(* one calculator serving calls in sequence, SpecConc has threads sharing  *)
(* one calculator.                                                         *)
(*                                                                         *)
(* Python floats are modelled as extended decimal numbers: a finite value  *)
(* is (n/d) * 10^e with a normalised rational mantissa (1 <= |n/d| < 10),  *)
(* next to +inf, -inf and nan.  Division and comparison are exact within   *)
(* the binary64 exponent range; a quotient beyond the range overflows to   *)
(* an infinity or underflows to zero.  Addition is exact for operands at   *)
(* most Digits decimal orders apart and absorbs the smaller one otherwise. *)
(* The rounding of the 53-bit mantissa is not modelled.                    *)
(***************************************************************************)
EXTENDS Integers, Sequences, FiniteSets, TLC

VARIABLES
    tolerance,  \* self.tolerance of the one calculator
    op,         \* the operation of the call in progress or returned, or "idle"
    args,       \* its numeric arguments
    ret,        \* the float it returned, or None
    warned,     \* the warnings it emitted, in order
    raised,     \* the exception it raised, or "none"
    params,     \* simulate_scenario: the keyword parameters
    results,    \* simulate_scenario: the dict it returned
    origin,     \* the mu a round trip started from, or None
    called,     \* the calculator's methods the call entered, in order
    given,      \* validate_parameters: the PhysicsParameters as the caller built it
    physics,    \* validate_parameters: that object after the call
    is_valid,   \* validate_parameters: the first component of the returned pair
    errors,     \* validate_parameters: the second component, the messages
    scenario,   \* simulate_scenario: the name passed, or "none"
    previous,   \* the call whose result the call was given, or NoCall
    at_radius,  \* BlackHoleSimulation: rho, chi and mu of the last call
    thread      \* the calls of the threads that share the calculator

vars == <<tolerance, op, args, ret, warned, raised, params, results, origin,
          called, given, physics, is_valid, errors, scenario, previous,
          at_radius, thread>>

(***************************************************************************)
(* Bounds of the model.                                                    *)
(***************************************************************************)
\* decimal orders between two addends beyond which the smaller is absorbed
Digits == 4
\* keyword parameters in one simulate_scenario call
MaxParams == 2
\* threads that call the shared calculator
NumThreads == 2

(***************************************************************************)
(* Python float.                                                           *)
(***************************************************************************)
MaxExp10 == 308
MinExp10 == 0 - 324

PosInf == [k |-> "inf", n |-> 0, d |-> 1, e |-> 0]
NegInf == [k |-> "ninf", n |-> 0, d |-> 1, e |-> 0]
NaN == [k |-> "nan", n |-> 0, d |-> 1, e |-> 0]
Zero == [k |-> "fin", n |-> 0, d |-> 1, e |-> 0]
\* the value of an expression that raised ZeroDivisionError
ZeroDiv == [k |-> "zde", n |-> 0, d |-> 1, e |-> 0]

AbsInt(i) == IF i < 0 THEN 0 - i ELSE i

RECURSIVE Gcd(_, _)
Gcd(a, b) == IF b = 0 THEN a ELSE Gcd(b, a % b)

RECURSIVE Pow10(_)
Pow10(i) == IF i = 0 THEN 1 ELSE 10 * Pow10(i - 1)

\* scale the mantissa n/d (n # 0, d > 0) into 1 <= |n/d| < 10
RECURSIVE Scale(_, _, _)
Scale(n, d, e) ==
    IF AbsInt(n) >= 10 * d THEN Scale(n, 10 * d, e + 1)
    ELSE IF AbsInt(n) < d THEN Scale(10 * n, d, e - 1)
    ELSE LET g == Gcd(AbsInt(n), d)
         IN  [k |-> "fin", n |-> n \div g, d |-> d \div g, e |-> e]

\* the float nearest to (n/d) * 10^e, d > 0
Norm(n, d, e) ==
    IF n = 0 THEN Zero
    ELSE LET g == Gcd(AbsInt(n), d)
             s == Scale(n \div g, d \div g, e)
         IN  IF s.e > MaxExp10 THEN (IF n > 0 THEN PosInf ELSE NegInf)
             ELSE IF s.e < MinExp10 THEN Zero
             ELSE s

\* the literal n * 10^e
Num(n, e) == Norm(n, 1, e)

IsFinite(a) == a.k = "fin"
IsNumber(a) == a.k \in {"fin", "inf", "ninf"}

Sign(a) ==
    CASE a.k = "inf" -> 1
      [] a.k = "ninf" -> 0 - 1
      [] a.k = "fin" -> (IF a.n > 0 THEN 1 ELSE IF a.n < 0 THEN 0 - 1 ELSE 0)
      [] OTHER -> 0

\* abs(a)
Abs(a) ==
    CASE a.k = "fin" -> [a EXCEPT !.n = AbsInt(a.n)]
      [] a.k \in {"inf", "ninf"} -> PosInf
      [] OTHER -> a

\* -a
Neg(a) ==
    CASE a.k = "fin" -> [a EXCEPT !.n = 0 - a.n]
      [] a.k = "inf" -> NegInf
      [] a.k = "ninf" -> PosInf
      [] OTHER -> a

\* a < b on positive finite floats
PosLt(a, b) == \/ a.e < b.e
               \/ a.e = b.e /\ a.n * b.d < b.n * a.d

\* a < b ; every comparison with nan is false
Lt(a, b) ==
    /\ IsNumber(a) /\ IsNumber(b)
    /\ CASE a.k = "inf" -> FALSE
         [] b.k = "ninf" -> FALSE
         [] a.k = "ninf" -> TRUE
         [] b.k = "inf" -> TRUE
         [] OTHER ->
              IF Sign(a) # Sign(b) THEN Sign(a) < Sign(b)
              ELSE IF Sign(a) = 0 THEN FALSE
              ELSE IF Sign(a) > 0 THEN PosLt(a, b)
              ELSE PosLt(Abs(b), Abs(a))

\* a > b
Gt(a, b) == Lt(b, a)

\* a == b
Eq(a, b) == IsNumber(a) /\ IsNumber(b) /\ a = b

\* a != b
Ne(a, b) == ~Eq(a, b)

\* a >= b
Ge(a, b) == Gt(a, b) \/ Eq(a, b)

\* a <= b
Le(a, b) == Lt(a, b) \/ Eq(a, b)

\* a / b ; a float division by zero raises ZeroDivisionError
Div(a, b) ==
    CASE a.k = "zde" \/ b.k = "zde" -> ZeroDiv
      [] b.k = "fin" /\ b.n = 0 -> ZeroDiv
      [] a.k = "nan" \/ b.k = "nan" -> NaN
      [] a.k # "fin" /\ b.k # "fin" -> NaN
      [] a.k # "fin" -> (IF Sign(a) * Sign(b) > 0 THEN PosInf ELSE NegInf)
      [] b.k # "fin" -> Zero
      [] OTHER -> IF b.n > 0 THEN Norm(a.n * b.d, a.d * b.n, a.e - b.e)
                  ELSE Norm(0 - (a.n * b.d), a.d * (0 - b.n), a.e - b.e)

\* a * b
Mul(a, b) ==
    CASE a.k = "zde" \/ b.k = "zde" -> ZeroDiv
      [] a.k = "nan" \/ b.k = "nan" -> NaN
      [] a.k # "fin" \/ b.k # "fin" ->
            (IF Sign(a) * Sign(b) = 0 THEN NaN
             ELSE IF Sign(a) * Sign(b) > 0 THEN PosInf ELSE NegInf)
      [] OTHER -> Norm(a.n * b.n, a.d * b.d, a.e + b.e)

\* a + b
Add(a, b) ==
    CASE a.k = "zde" \/ b.k = "zde" -> ZeroDiv
      [] a.k = "nan" \/ b.k = "nan" -> NaN
      [] a.k # "fin" /\ b.k # "fin" -> (IF a.k = b.k THEN a ELSE NaN)
      [] a.k # "fin" -> a
      [] b.k # "fin" -> b
      [] a.n = 0 -> b
      [] b.n = 0 -> a
      [] a.e - b.e > Digits -> a
      [] b.e - a.e > Digits -> b
      [] OTHER -> LET m == IF a.e < b.e THEN a.e ELSE b.e
                  IN  Norm(a.n * b.d * Pow10(a.e - m) + b.n * a.d * Pow10(b.e - m),
                           a.d * b.d, m)

\* a - b
Sub(a, b) == Add(a, Neg(b))


(***************************************************************************)
(* UniversalChangeCalculator: the numeric operations.  Each returns the    *)
(* pair of the returned float and the warnings emitted on the way.         *)
(***************************************************************************)
None == [k |-> "none", n |-> 0, d |-> 1, e |-> 0]

One == Num(1, 0)

Out(v, w) == [value |-> v, warnings |-> w]

WarnEpsilon == "Epsilon approaching zero - quantum uncertainty limit"
WarnDeltaZeta == "Delta zeta approaching zero - state change singularity"
WarnChiThermo == "Chi approaching zero - no resistance to change"
WarnTime == "Time approaching zero - instantaneous change"
WarnChiGrav == "Chi approaching zero - gravitational singularity"
WarnMu == "Mu approaching zero - time dilation approaching infinity"
WarnTau == "Tau approaching zero - change flow approaching infinity"

\* faulty variant: the division is not guarded
calculate_mu_quantum_unguarded(nu, epsilon) == Out(Div(nu, epsilon), <<>>)

\* faulty variant: an epsilon equal to the tolerance counts as near zero
calculate_mu_quantum_le(nu, epsilon) ==
    IF Le(Abs(epsilon), tolerance)
    THEN Out(IF Gt(nu, Zero) THEN PosInf ELSE Zero, <<WarnEpsilon>>)
    ELSE Out(Div(nu, epsilon), <<>>)

\* faulty variant: the limit takes the sign of nu
calculate_mu_quantum_signed(nu, epsilon) ==
    IF Lt(Abs(epsilon), tolerance)
    THEN Out(IF Gt(nu, Zero) THEN PosInf
             ELSE IF Lt(nu, Zero) THEN NegInf ELSE Zero, <<WarnEpsilon>>)
    ELSE Out(Div(nu, epsilon), <<>>)

calculate_mu_quantum(nu, epsilon) ==
    IF Lt(Abs(epsilon), tolerance)
    THEN Out(IF Gt(nu, Zero) THEN PosInf ELSE Zero, <<WarnEpsilon>>)
    ELSE Out(Div(nu, epsilon), <<>>)

\* faulty variant: the zeta difference is compared with zero exactly
calculate_mu_state_exact_zero(psi1, psi2, zeta1, zeta2) ==
    LET delta_psi == Sub(psi2, psi1)
        delta_zeta == Sub(zeta2, zeta1)
    IN  IF Eq(delta_zeta, Zero)
        THEN Out(IF Gt(delta_psi, Zero) THEN PosInf ELSE Zero, <<WarnDeltaZeta>>)
        ELSE Out(Div(delta_psi, delta_zeta), <<>>)

calculate_mu_state(psi1, psi2, zeta1, zeta2) ==
    LET delta_psi == Sub(psi2, psi1)
        delta_zeta == Sub(zeta2, zeta1)
    IN  IF Lt(Abs(delta_zeta), tolerance)
        THEN Out(IF Gt(delta_psi, Zero) THEN PosInf ELSE Zero, <<WarnDeltaZeta>>)
        ELSE Out(Div(delta_psi, delta_zeta), <<>>)

\* faulty variant: t is checked before chi
calculate_mu_thermodynamic_t_first(delta_s, t, chi) ==
    IF Lt(Abs(t), tolerance)
    THEN Out(IF Ne(delta_s, Zero) THEN PosInf ELSE Zero, <<WarnTime>>)
    ELSE IF Lt(Abs(chi), tolerance)
    THEN Out(PosInf, <<WarnChiThermo>>)
    ELSE LET entropy_rate == Div(delta_s, t)
         IN  Out(Div(entropy_rate, chi), <<>>)

\* faulty variant: near-zero t gives +inf for a positive delta_s only
calculate_mu_thermodynamic_positive(delta_s, t, chi) ==
    IF Lt(Abs(chi), tolerance)
    THEN Out(PosInf, <<WarnChiThermo>>)
    ELSE IF Lt(Abs(t), tolerance)
    THEN Out(IF Gt(delta_s, Zero) THEN PosInf ELSE Zero, <<WarnTime>>)
    ELSE LET entropy_rate == Div(delta_s, t)
         IN  Out(Div(entropy_rate, chi), <<>>)

\* faulty variant: the near-zero t branch returns without a warning
calculate_mu_thermodynamic_silent_t(delta_s, t, chi) ==
    IF Lt(Abs(chi), tolerance)
    THEN Out(PosInf, <<WarnChiThermo>>)
    ELSE IF Lt(Abs(t), tolerance)
    THEN Out(IF Ne(delta_s, Zero) THEN PosInf ELSE Zero, <<>>)
    ELSE LET entropy_rate == Div(delta_s, t)
         IN  Out(Div(entropy_rate, chi), <<>>)

calculate_mu_thermodynamic(delta_s, t, chi) ==
    IF Lt(Abs(chi), tolerance)
    THEN Out(PosInf, <<WarnChiThermo>>)
    ELSE IF Lt(Abs(t), tolerance)
    THEN Out(IF Ne(delta_s, Zero) THEN PosInf ELSE Zero, <<WarnTime>>)
    ELSE LET entropy_rate == Div(delta_s, t)
         IN  Out(Div(entropy_rate, chi), <<>>)

\* faulty variant: rho is multiplied by chi
calculate_mu_gravitational_product(rho, chi) ==
    IF Lt(Abs(chi), tolerance)
    THEN Out(PosInf, <<WarnChiGrav>>)
    ELSE Out(Mul(rho, chi), <<>>)

\* faulty variant: a chi of exactly the tolerance counts as near zero
calculate_mu_gravitational_le(rho, chi) ==
    IF Le(Abs(chi), tolerance)
    THEN Out(PosInf, <<WarnChiGrav>>)
    ELSE Out(Div(rho, chi), <<>>)

\* faulty variant: the limit follows the sign of rho, as in calculate_mu_quantum
calculate_mu_gravitational_signed(rho, chi) ==
    IF Lt(Abs(chi), tolerance)
    THEN Out(IF Gt(rho, Zero) THEN PosInf ELSE Zero, <<WarnChiGrav>>)
    ELSE Out(Div(rho, chi), <<>>)

calculate_mu_gravitational(rho, chi) ==
    IF Lt(Abs(chi), tolerance)
    THEN Out(PosInf, <<WarnChiGrav>>)
    ELSE Out(Div(rho, chi), <<>>)

\* faulty variant: the limit takes the sign of mu
calculate_tau_from_mu_signed(mu) ==
    IF Lt(Abs(mu), tolerance)
    THEN Out(IF Lt(mu, Zero) THEN NegInf ELSE PosInf, <<WarnMu>>)
    ELSE Out(Div(One, mu), <<>>)

calculate_tau_from_mu(mu) ==
    IF Lt(Abs(mu), tolerance)
    THEN Out(PosInf, <<WarnMu>>)
    ELSE Out(Div(One, mu), <<>>)

\* faulty variant: a tau of exactly the tolerance counts as near zero
calculate_mu_from_tau_le(tau) ==
    IF Le(Abs(tau), tolerance)
    THEN Out(PosInf, <<WarnTau>>)
    ELSE Out(Div(One, tau), <<>>)

calculate_mu_from_tau(tau) ==
    IF Lt(Abs(tau), tolerance)
    THEN Out(PosInf, <<WarnTau>>)
    ELSE Out(Div(One, tau), <<>>)

(***************************************************************************)
(* simulate_scenario.  The keyword parameters are a dict over the keys the *)
(* presets read; a key that was not passed holds None.                     *)
(***************************************************************************)
NoRange == <<None, None>>

\* the keys whose value is a pair
RangeKeys == {"psi_range", "zeta_range"}

\* key in params
Has(p, key) == IF key \in RangeKeys THEN p[key] # NoRange ELSE p[key] # None

\* params.get(key, default)
Get(p, key, default) == IF Has(p, key) THEN p[key] ELSE default

\* faulty variant: the dict is replaced, not extended
Update_replace(r, u) == u

\* results.update(u)
Update(r, u) == u @@ r

\* faulty variant: tau is the bare reciprocal of mu
Preset_unguarded(results0, formulation, mu, analysis) ==
    LET tau == Out(Div(One, mu.value), <<>>)
    IN  [results |-> Update(results0, [mu |-> mu.value, tau |-> tau.value,
                                       analysis |-> analysis]),
         warnings |-> mu.warnings \o tau.warnings,
         called |-> <<formulation, "calculate_tau_from_mu">>]

\* the result of a preset: the formulation's mu, tau_from_mu of it, the analysis
Preset(results0, formulation, mu, analysis) ==
    LET tau == calculate_tau_from_mu(mu.value)
    IN  [results |-> Update(results0, [mu |-> mu.value, tau |-> tau.value,
                                       analysis |-> analysis]),
         warnings |-> mu.warnings \o tau.warnings,
         called |-> <<formulation, "calculate_tau_from_mu">>]

\* faulty variant: the two arguments of the formulation are swapped
black_hole_swapped(results0, p) ==
    LET chi == Get(p, "chi", Num(1, 6))
        rho == Get(p, "rho", Num(1, 3))
    IN  Preset(results0, "calculate_mu_gravitational",
               calculate_mu_gravitational(chi, rho), "Time stops at singularity")

black_hole(results0, p) ==
    LET chi == Get(p, "chi", Num(1, 6))
        rho == Get(p, "rho", Num(1, 3))
    IN  Preset(results0, "calculate_mu_gravitational",
               calculate_mu_gravitational(rho, chi), "Time stops at singularity")

\* faulty variant: the preset divides epsilon by nu
light_speed_inverted(results0, p) ==
    LET epsilon == Get(p, "epsilon", Num(1, 0 - 10))
        nu == Get(p, "nu", Num(1, 0))
    IN  Preset(results0, "calculate_mu_quantum",
               calculate_mu_quantum(epsilon, nu), "Light experiences no time")

light_speed(results0, p) ==
    LET epsilon == Get(p, "epsilon", Num(1, 0 - 10))
        nu == Get(p, "nu", Num(1, 0))
    IN  Preset(results0, "calculate_mu_quantum",
               calculate_mu_quantum(nu, epsilon), "Light experiences no time")

quantum_vacuum(results0, p) ==
    LET psi == Get(p, "psi_range", <<Zero, Num(1, 0)>>)
        zeta == Get(p, "zeta_range", <<Zero, Num(1, 0 - 1)>>)
    IN  Preset(results0, "calculate_mu_state",
               calculate_mu_state(psi[1], psi[2], zeta[1], zeta[2]),
               "Vacuum fluctuation dynamics")

universe_expansion(results0, p) ==
    LET delta_s == Get(p, "delta_s", Num(1, 23))
        t == Get(p, "t", Num(1, 17))
        chi == Get(p, "chi", Num(1, 6))
    IN  Preset(results0, "calculate_mu_thermodynamic",
               calculate_mu_thermodynamic(delta_s, t, chi),
               "Cosmic expansion dynamics")

\* faulty variant: the chi default is written into the caller's parameters
simulate_scenario_setdefault(name, p) ==
    LET q == [p EXCEPT !.chi = Get(p, "chi", Num(1, 6))]
        results0 == [scenario |-> name, parameters |-> q]
    IN  CASE name = "black_hole" -> black_hole(results0, q)
          [] name = "light_speed" -> light_speed(results0, q)
          [] name = "quantum_vacuum" -> quantum_vacuum(results0, q)
          [] name = "universe_expansion" -> universe_expansion(results0, q)
          [] OTHER -> [results |-> results0, warnings |-> <<>>, called |-> <<>>]

\* faulty variant: an unknown name falls back to the black_hole preset
simulate_scenario_fallback(name, p) ==
    LET results0 == [scenario |-> name, parameters |-> p]
    IN  CASE name = "light_speed" -> light_speed(results0, p)
          [] name = "quantum_vacuum" -> quantum_vacuum(results0, p)
          [] name = "universe_expansion" -> universe_expansion(results0, p)
          [] OTHER -> black_hole(results0, p)

simulate_scenario(name, p) ==
    LET results0 == [scenario |-> name, parameters |-> p]
    IN  CASE name = "black_hole" -> black_hole(results0, p)
          [] name = "light_speed" -> light_speed(results0, p)
          [] name = "quantum_vacuum" -> quantum_vacuum(results0, p)
          [] name = "universe_expansion" -> universe_expansion(results0, p)
          [] OTHER -> [results |-> results0, warnings |-> <<>>, called |-> <<>>]

(***************************************************************************)
(* validate_parameters.  A PhysicsParameters is a record of its ten        *)
(* fields; an unset field holds None.                                      *)
(***************************************************************************)
ErrEpsilon == "Epsilon (perturbation) should be positive"
ErrChi == "Chi (resistance to change) must be positive"
ErrTime == "Time must be positive"
ErrRho == "Energy density (rho) should be non-negative"
\* the source writes tau, the unequal sign and mu with non-ASCII letters
ErrMuTau == "Mu and tau are inconsistent (tau != 1/mu)"

\* faulty variant: only the first violation is recorded
AppendIf_first(errs, cond, msg) ==
    IF cond /\ errs = <<>> THEN Append(errs, msg) ELSE errs

\* if cond: errors.append(msg)
AppendIf(errs, cond, msg) == IF cond THEN Append(errs, msg) ELSE errs

BadEpsilon(p) == p.epsilon # None /\ Lt(p.epsilon, Zero)

\* faulty variant: a chi of zero is accepted
BadChi_strict(p) == p.chi # None /\ Lt(p.chi, Zero)

BadChi(p) == p.chi # None /\ Le(p.chi, Zero)

BadTime(p) == p.t # None /\ Le(p.t, Zero)

BadRho(p) == p.rho # None /\ Lt(p.rho, Zero)

\* faulty variant: the division is not guarded
expected_tau_unguarded(mu) == Div(One, mu)

\* expected_tau = 1.0 / params.mu if params.mu != 0 else float('inf')
expected_tau(mu) == IF Ne(mu, Zero) THEN Div(One, mu) ELSE PosInf

\* faulty variant: a difference of exactly the tolerance is reported
Inconsistent_ge(p) ==
    /\ p.mu # None /\ p.tau # None
    /\ Ge(Abs(Sub(p.tau, expected_tau(p.mu))), tolerance)

Inconsistent(p) ==
    /\ p.mu # None /\ p.tau # None
    /\ Gt(Abs(Sub(p.tau, expected_tau(p.mu))), tolerance)

\* faulty variant: a single violation still counts as valid
IsValid_lenient(errs) == Len(errs) <= 1

\* len(errors) == 0
IsValid(errs) == Len(errs) = 0

validate_parameters(p) ==
    LET e1 == AppendIf(<<>>, BadEpsilon(p), ErrEpsilon)
        e2 == AppendIf(e1, BadChi(p), ErrChi)
        e3 == AppendIf(e2, BadTime(p), ErrTime)
        e4 == AppendIf(e3, BadRho(p), ErrRho)
        e5 == AppendIf(e4, Inconsistent(p), ErrMuTau)
    IN  IF p.mu # None /\ p.tau # None /\ expected_tau(p.mu) = ZeroDiv
        THEN [raised |-> "ZeroDivisionError", is_valid |-> FALSE, errors |-> e4,
              params |-> p]
        ELSE [raised |-> "none", is_valid |-> IsValid(e5), errors |-> e5,
              params |-> p]

(***************************************************************************)
(* The arguments the callers are taken to pass.                            *)
(***************************************************************************)
Tol == Num(1, 0 - 10)

Nus == {Zero, One, Num(0 - 1, 0), Num(2, 0)}
Epsilons == {Zero, Num(5, 0 - 11), Num(0 - 5, 0 - 11), Tol, Num(0 - 1, 0 - 10),
             Num(5, 0 - 1), Num(0 - 2, 0)}
Psis == {Zero, One, Num(0 - 1, 0), Num(1, 1)}
Zetas == {Zero, Num(5, 0 - 11), Tol, Num(1, 0 - 1), Num(5, 0)}
DeltaSs == {Zero, Num(1, 2), Num(0 - 1, 2), Num(1, 23)}
Ts == {Zero, Num(5, 0 - 11), Tol, Num(1, 1), Num(0 - 1, 1), Num(1, 17)}
Chis == {Zero, Num(5, 0 - 11), Num(0 - 5, 0 - 11), Tol, Num(0 - 1, 0 - 10),
         Num(1, 0 - 94), Num(1, 94), Num(5, 0), Num(0 - 2, 0), Num(1, 6),
         Num(1, 10)}
Rhos == {Zero, One, Num(0 - 1, 0), Num(1, 0 - 100), Num(1, 100), Num(1, 10),
         Num(1, 3), Tol, Num(5, 0), Num(0 - 2, 0), Num(1, 94)}
Mus == {Zero, Num(5, 0 - 11), Num(0 - 5, 0 - 11), Tol, Num(2, 0 - 10),
        Num(5, 0 - 1), One, Num(2, 0), Num(0 - 2, 0), Num(1, 1), Num(3, 5),
        Num(1, 9), Num(1, 10), Num(1, 11), Num(1, 300), PosInf}
Taus == Mus

ScenarioNames == {"black_hole", "light_speed", "quantum_vacuum",
                  "universe_expansion", "not_a_scenario", ""}

ParamKeys == {"chi", "rho", "epsilon", "nu", "psi_range", "zeta_range",
              "delta_s", "t"}

AllParamDicts ==
    [chi : {None, Num(1, 6), One, Zero},
     rho : {None, Num(1, 3), Zero},
     epsilon : {None, Tol, Num(5, 0 - 1), Zero},
     nu : {None, One, Zero},
     psi_range : {NoRange, <<Zero, One>>, <<One, Zero>>},
     zeta_range : {NoRange, <<Zero, Num(1, 0 - 1)>>, <<Zero, Zero>>},
     delta_s : {None, Num(1, 23), Zero},
     t : {None, Num(1, 17), Zero}]

ParamDicts ==
    {p \in AllParamDicts :
        Cardinality({key \in ParamKeys : Has(p, key)}) <= MaxParams}

\* the fields validate_parameters reads
SoftValues == {None, Num(0 - 1, 0), Zero, One}
MuValues == {None, Zero, One, Num(2, 0), Num(5, 0 - 11), Num(1, 10), PosInf}
TauValues == {None, Zero, One, Num(5, 0 - 1), Num(2, 10), Num(2, 0 - 10),
              Num(3, 0 - 10), PosInf}
\* the fields it does not read: all unset, or all set
OtherValues == {None, Num(0 - 1, 0)}

PhysicsParameters ==
    {[nu |-> o, epsilon |-> epsilon, psi |-> o, zeta |-> o, delta_s |-> o,
      t |-> t, chi |-> chi, rho |-> rho, mu |-> mu, tau |-> tau] :
        o \in OtherValues, epsilon \in SoftValues, t \in SoftValues,
        chi \in SoftValues, rho \in SoftValues, mu \in MuValues,
        tau \in TauValues}

NoParameters == <<>>

(***************************************************************************)
(* BlackHoleSimulation (src/black_hole_simulation.py).  The constants G     *)
(* and c are kept as symbols: a quantity is v * G^g * c^k with v a float,  *)
(* and products and quotients add and subtract the powers.  Two            *)
(* quantities with the same powers of G and c are equal exactly when their *)
(* v are.  Mass and radius are plain floats.                               *)
(***************************************************************************)
Quantity(v, g, k) == [v |-> v, G |-> g, c |-> k]
Plain(v) == Quantity(v, 0, 0)
G == Quantity(One, 1, 0)
c == Quantity(One, 0, 1)

QMul(a, b) == Quantity(Mul(a.v, b.v), a.G + b.G, a.c + b.c)
QDiv(a, b) == Quantity(Div(a.v, b.v), a.G - b.G, a.c - b.c)
RECURSIVE QPow(_, _)
QPow(a, n) == IF n = 1 THEN a ELSE QMul(a, QPow(a, n - 1))

\* self.tolerance of a BlackHoleSimulation
BlackHoleTolerance == Num(1, 0 - 15)

calculate_schwarzschild_radius(mass) ==
    QDiv(QMul(QMul(Plain(Num(2, 0)), G), mass), QPow(c, 2))

calculate_energy_density_at_radius(mass, r) ==
    IF Lt(r.v, BlackHoleTolerance)
    THEN Plain(PosInf)
    ELSE QDiv(QMul(G, mass), QMul(QPow(r, 3), QPow(c, 2)))

calculate_resistance_to_change(mass, r) ==
    IF Lt(r.v, BlackHoleTolerance)
    THEN Plain(PosInf)
    ELSE LET r_s == calculate_schwarzschild_radius(mass)
         IN  QPow(QDiv(r_s, r), 2)

calculate_mu_at_radius(mass, r) ==
    LET rho == calculate_energy_density_at_radius(mass, r)
        chi == calculate_resistance_to_change(mass, r)
    IN  IF chi = Plain(PosInf) /\ rho = Plain(PosInf) THEN Plain(Zero)
        ELSE IF chi = Plain(PosInf) THEN Plain(Zero)
        ELSE QDiv(rho, chi)

Masses == {Num(1, 30), Num(2, 31)}
Radii == {Zero, Num(1, 0 - 16), Num(1, 0 - 15), Num(5, 0 - 1), One, Num(2, 0),
          Num(3, 4)}

(***************************************************************************)
(* The calls.                                                              *)
(***************************************************************************)
EmptyDict == <<>>
NoCall == [op |-> "none", args |-> <<>>]
NoQuantities == <<>>

Threads == 1 .. NumThreads
\* a thread outside any call
IdleThread ==
    [pc |-> "idle", op |-> "none", args |-> <<>>, tests |-> <<>>,
     ret |-> None, warned |-> <<>>]

\* UniversalChangeCalculator()
Init ==
    /\ tolerance = Num(1, 0 - 10)
    /\ op = "idle"
    /\ args = <<>>
    /\ ret = None
    /\ warned = <<>>
    /\ raised = "none"
    /\ params = EmptyDict
    /\ results = EmptyDict
    /\ origin = None
    /\ called = <<>>
    /\ given = NoParameters
    /\ physics = NoParameters
    /\ is_valid = FALSE
    /\ errors = <<>>
    /\ scenario = "none"
    /\ previous = NoCall
    /\ at_radius = NoQuantities
    /\ thread = [t \in Threads |-> IdleThread]

\* faulty variant: a call that warned widens self.tolerance
Returns_widening(name, a, out) ==
    /\ op' = name
    /\ called' = <<"calculate_" \o name>>
    /\ args' = a
    /\ warned' = out.warnings
    /\ ret' = out.value
    /\ raised' = "none"
    /\ tolerance' = IF out.warnings # <<>> THEN Num(1, 0 - 9) ELSE tolerance
    /\ UNCHANGED <<params, results, given, physics, is_valid, errors,
                   scenario, at_radius, thread>>

\* a numeric operation called with arguments a returns out
Returns(name, a, out) ==
    /\ op' = name
    /\ called' = <<"calculate_" \o name>>
    /\ args' = a
    /\ warned' = out.warnings
    /\ IF out.value.k = "zde"
       THEN ret' = None /\ raised' = "ZeroDivisionError"
       ELSE ret' = out.value /\ raised' = "none"
    /\ UNCHANGED <<tolerance, params, results, given, physics, is_valid, errors,
                   scenario, at_radius, thread>>

Call_mu_quantum ==
    /\ op = "idle"
    /\ \E nu \in Nus, epsilon \in Epsilons :
          Returns("mu_quantum", <<nu, epsilon>>, calculate_mu_quantum(nu, epsilon))
    /\ origin' = None
    /\ previous' = NoCall

Call_mu_state ==
    /\ op = "idle"
    /\ \E psi1 \in Psis, psi2 \in Psis, zeta1 \in Zetas, zeta2 \in Zetas :
          Returns("mu_state", <<psi1, psi2, zeta1, zeta2>>,
                  calculate_mu_state(psi1, psi2, zeta1, zeta2))
    /\ origin' = None
    /\ previous' = NoCall

Call_mu_thermodynamic ==
    /\ op = "idle"
    /\ \E delta_s \in DeltaSs, t \in Ts, chi \in Chis :
          Returns("mu_thermodynamic", <<delta_s, t, chi>>,
                  calculate_mu_thermodynamic(delta_s, t, chi))
    /\ origin' = None
    /\ previous' = NoCall

Call_mu_gravitational ==
    /\ op = "idle"
    /\ \E rho \in Rhos, chi \in Chis :
          Returns("mu_gravitational", <<rho, chi>>,
                  calculate_mu_gravitational(rho, chi))
    /\ origin' = None
    /\ previous' = NoCall

Call_tau_from_mu ==
    /\ op = "idle"
    /\ \E mu \in Mus :
          Returns("tau_from_mu", <<mu>>, calculate_tau_from_mu(mu))
    /\ origin' = None
    /\ previous' = NoCall

Call_mu_from_tau ==
    /\ op = "idle"
    /\ \E tau \in Taus :
          Returns("mu_from_tau", <<tau>>, calculate_mu_from_tau(tau))
    /\ origin' = None
    /\ previous' = NoCall

\* tau = calculate_tau_from_mu(mu); mu_back = calculate_mu_from_tau(tau)
RoundTrip ==
    /\ op = "tau_from_mu"
    /\ raised = "none"
    /\ Returns("mu_from_tau", <<ret>>, calculate_mu_from_tau(ret))
    /\ origin' = args[1]
    /\ previous' = [op |-> op, args |-> args]

\* mu = calculate_mu_gravitational(rho, chi); tau = calculate_tau_from_mu(mu)
Consistency ==
    /\ op = "mu_gravitational"
    /\ raised = "none"
    /\ Returns("tau_from_mu", <<ret>>, calculate_tau_from_mu(ret))
    /\ origin' = None
    /\ previous' = [op |-> op, args |-> args]

\* simulate_scenario(name, **p) returns
Simulates(name, p) ==
    /\ LET out == simulate_scenario(name, p)
       IN  /\ op' = "simulate_scenario"
           /\ scenario' = name
           /\ params' = p
           /\ results' = out.results
           /\ warned' = out.warnings
           /\ called' = <<"simulate_scenario">> \o out.called
           /\ raised' = IF /\ "mu" \in DOMAIN out.results
                           /\ "zde" \in {out.results.mu.k, out.results.tau.k}
                        THEN "ZeroDivisionError"
                        ELSE "none"
    /\ args' = <<>>
    /\ ret' = None
    /\ origin' = None
    /\ previous' = NoCall
    /\ UNCHANGED <<tolerance, given, physics, is_valid, errors, at_radius, thread>>

Call_simulate_scenario ==
    /\ op = "idle"
    /\ \E name \in ScenarioNames, p \in ParamDicts : Simulates(name, p)

\* validate_parameters(p) returns; p was built from the result of call prev
Validates(p, prev) ==
    /\ LET out == validate_parameters(p)
       IN  /\ op' = "validate_parameters"
           /\ given' = p
           /\ physics' = out.params
           /\ is_valid' = out.is_valid
           /\ errors' = out.errors
           /\ raised' = out.raised
    /\ called' = <<"validate_parameters">>
    /\ previous' = prev
    /\ args' = <<>>
    /\ ret' = None
    /\ warned' = <<>>
    /\ origin' = None
    /\ UNCHANGED <<tolerance, params, results, scenario, at_radius, thread>>

Call_validate_parameters ==
    /\ op = "idle"
    /\ \E p \in PhysicsParameters : Validates(p, NoCall)

\* PhysicsParameters(mu=mu, tau=tau): the other fields keep their default
Converted(mu, tau) ==
    [nu |-> None, epsilon |-> None, psi |-> None, zeta |-> None,
     delta_s |-> None, t |-> None, chi |-> None, rho |-> None,
     mu |-> mu, tau |-> tau]

\* validate_parameters on the mu a conversion was given and the tau it
\* returned, or on the mu and tau of a preset's result
Validate_converted ==
    /\ raised = "none"
    /\ \/ op = "tau_from_mu" /\ previous = NoCall
       \/ op = "simulate_scenario" /\ "mu" \in DOMAIN results
    /\ Validates(IF op = "tau_from_mu" THEN Converted(args[1], ret)
                 ELSE Converted(results.mu, results.tau),
                 [op |-> op, args |-> args])

\* BlackHoleSimulation().calculate_mu_at_radius(mass, r)
Call_mu_at_radius ==
    /\ op = "idle"
    /\ \E mass \in Masses, r \in Radii :
          /\ args' = <<mass, r>>
          /\ at_radius' =
                [rho |-> calculate_energy_density_at_radius(Plain(mass), Plain(r)),
                 chi |-> calculate_resistance_to_change(Plain(mass), Plain(r)),
                 mu |-> calculate_mu_at_radius(Plain(mass), Plain(r))]
    /\ op' = "mu_at_radius"
    /\ called' = <<"calculate_mu_at_radius">>
    /\ ret' = None
    /\ warned' = <<>>
    /\ raised' = "none"
    /\ origin' = None
    /\ previous' = NoCall
    /\ UNCHANGED <<tolerance, params, results, given, physics, is_valid, errors,
                   scenario, thread>>

\* the caller is done with the result; the next one constructs a calculator
NewCalculator ==
    /\ op # "idle"
    /\ tolerance' = Num(1, 0 - 10)
    /\ op' = "idle"
    /\ args' = <<>>
    /\ ret' = None
    /\ warned' = <<>>
    /\ raised' = "none"
    /\ params' = EmptyDict
    /\ results' = EmptyDict
    /\ origin' = None
    /\ called' = <<>>
    /\ given' = NoParameters
    /\ physics' = NoParameters
    /\ is_valid' = FALSE
    /\ errors' = <<>>
    /\ scenario' = "none"
    /\ previous' = NoCall
    /\ at_radius' = NoQuantities
    /\ UNCHANGED thread

Next ==
    \/ Call_mu_quantum
    \/ Call_mu_state
    \/ Call_mu_thermodynamic
    \/ Call_mu_gravitational
    \/ Call_tau_from_mu
    \/ Call_mu_from_tau
    \/ RoundTrip
    \/ Consistency
    \/ Call_simulate_scenario
    \/ Call_validate_parameters
    \/ Validate_converted
    \/ Call_mu_at_radius
    \/ NewCalculator

Spec == Init /\ [][Next]_vars

(***************************************************************************)
(* One calculator serving a sequence of calls: every operation may follow  *)
(* every other on the same object, over a few arguments each.              *)
(***************************************************************************)
SeqNumerators == {Zero, One}
SeqDenominators == {Zero, Tol, Num(5, 0 - 1)}
\* no keyword, or chi = 0 alone
SeqParamDicts ==
    {p \in ParamDicts : /\ \A key \in ParamKeys \ {"chi"} : ~Has(p, key)
                        /\ p.chi \in {None, Zero}}
SeqPhysics == {Converted(mu, One) : mu \in {One, Num(2, 0)}}

Then_mu_quantum ==
    /\ \E nu \in SeqNumerators, epsilon \in SeqDenominators :
          Returns("mu_quantum", <<nu, epsilon>>, calculate_mu_quantum(nu, epsilon))
    /\ origin' = None
    /\ previous' = NoCall

Then_mu_state ==
    /\ \E psi2 \in SeqNumerators, zeta2 \in SeqDenominators :
          Returns("mu_state", <<Zero, psi2, Zero, zeta2>>,
                  calculate_mu_state(Zero, psi2, Zero, zeta2))
    /\ origin' = None
    /\ previous' = NoCall

Then_mu_thermodynamic ==
    /\ \E delta_s \in SeqNumerators, t \in SeqDenominators,
          chi \in SeqDenominators :
          Returns("mu_thermodynamic", <<delta_s, t, chi>>,
                  calculate_mu_thermodynamic(delta_s, t, chi))
    /\ origin' = None
    /\ previous' = NoCall

Then_mu_gravitational ==
    /\ \E rho \in SeqNumerators, chi \in SeqDenominators :
          Returns("mu_gravitational", <<rho, chi>>,
                  calculate_mu_gravitational(rho, chi))
    /\ origin' = None
    /\ previous' = NoCall

Then_tau_from_mu ==
    /\ \E mu \in SeqDenominators :
          Returns("tau_from_mu", <<mu>>, calculate_tau_from_mu(mu))
    /\ origin' = None
    /\ previous' = NoCall

Then_mu_from_tau ==
    /\ \E tau \in SeqDenominators :
          Returns("mu_from_tau", <<tau>>, calculate_mu_from_tau(tau))
    /\ origin' = None
    /\ previous' = NoCall

Then_simulate_scenario ==
    \E name \in ScenarioNames, p \in SeqParamDicts : Simulates(name, p)

Then_validate_parameters ==
    \E p \in SeqPhysics : Validates(p, NoCall)

NextSeq ==
    \/ Then_mu_quantum
    \/ Then_mu_state
    \/ Then_mu_thermodynamic
    \/ Then_mu_gravitational
    \/ Then_tau_from_mu
    \/ Then_mu_from_tau
    \/ Then_simulate_scenario
    \/ Then_validate_parameters

SpecSeq == Init /\ [][NextSeq]_vars

(***************************************************************************)
(* Several threads calling the numeric operations of one calculator.  A    *)
(* call is not atomic: it evaluates its near-zero tests one at a time,     *)
(* each reading self.tolerance, and then computes what it returns.         *)
(***************************************************************************)
\* the denominators a call tests, in the order of its if statements
Tested(name, a) ==
    CASE name = "mu_quantum" -> <<a[2]>>
      [] name = "mu_state" -> <<Sub(a[4], a[3])>>
      [] name = "mu_thermodynamic" -> <<a[3], a[2]>>
      [] name = "mu_gravitational" -> <<a[2]>>
      [] OTHER -> <<a[1]>>

\* the value returned by the branch of the i-th test
Limit(name, a, i) ==
    CASE name = "mu_quantum" -> (IF Gt(a[1], Zero) THEN PosInf ELSE Zero)
      [] name = "mu_state" ->
            (IF Gt(Sub(a[2], a[1]), Zero) THEN PosInf ELSE Zero)
      [] name = "mu_thermodynamic" /\ i = 2 ->
            (IF Ne(a[1], Zero) THEN PosInf ELSE Zero)
      [] OTHER -> PosInf

\* the warning of that branch
Warning(name, i) ==
    CASE name = "mu_quantum" -> WarnEpsilon
      [] name = "mu_state" -> WarnDeltaZeta
      [] name = "mu_thermodynamic" -> (IF i = 1 THEN WarnChiThermo ELSE WarnTime)
      [] name = "mu_gravitational" -> WarnChiGrav
      [] name = "tau_from_mu" -> WarnMu
      [] OTHER -> WarnTau

\* the value returned when no test held
Quotient(name, a) ==
    CASE name = "mu_quantum" -> Div(a[1], a[2])
      [] name = "mu_state" -> Div(Sub(a[2], a[1]), Sub(a[4], a[3]))
      [] name = "mu_thermodynamic" -> Div(Div(a[1], a[2]), a[3])
      [] name = "mu_gravitational" -> Div(a[1], a[2])
      [] OTHER -> Div(One, a[1])

ConcDenominators == {Zero, Tol}
ConcCalls ==
    {<<"mu_quantum", <<One, epsilon>>>> : epsilon \in ConcDenominators}
    \cup {<<"mu_state", <<Zero, One, Zero, zeta2>>>> : zeta2 \in ConcDenominators}
    \cup {<<"mu_thermodynamic", <<One, t, chi>>>> :
              t \in ConcDenominators, chi \in ConcDenominators}
    \cup {<<"mu_gravitational", <<One, chi>>>> : chi \in ConcDenominators}
    \cup {<<"tau_from_mu", <<mu>>>> : mu \in ConcDenominators}
    \cup {<<"mu_from_tau", <<tau>>>> : tau \in ConcDenominators}

\* the shared calculator and the other callers are left alone
Others == <<op, args, ret, warned, raised, params, results, origin, called,
            given, physics, is_valid, errors, scenario, previous, at_radius>>

\* thread t enters a method
T_Call(t) ==
    /\ thread[t].pc = "idle"
    /\ \E call \in ConcCalls :
          thread' = [thread EXCEPT ![t] =
                        [pc |-> "testing", op |-> call[1], args |-> call[2],
                         tests |-> <<>>, ret |-> None, warned |-> <<>>]]
    /\ UNCHANGED <<tolerance, Others>>

\* faulty variant: a test that holds widens self.tolerance
T_Test_widening(t) ==
    /\ thread[t].pc = "testing"
    /\ LET me == thread[t]
           tested == Tested(me.op, me.args)
           i == Len(me.tests) + 1
           near_zero == Lt(Abs(tested[i]), tolerance)
       IN  /\ thread' = [thread EXCEPT
                            ![t].tests = Append(me.tests, near_zero),
                            ![t].pc = IF near_zero \/ i = Len(tested)
                                      THEN "returning" ELSE "testing"]
           /\ tolerance' = IF near_zero THEN Num(1, 0 - 9) ELSE tolerance
    /\ UNCHANGED Others

\* thread t evaluates its next abs(d) < self.tolerance
T_Test(t) ==
    /\ thread[t].pc = "testing"
    /\ LET me == thread[t]
           tested == Tested(me.op, me.args)
           i == Len(me.tests) + 1
           near_zero == Lt(Abs(tested[i]), tolerance)
       IN  thread' = [thread EXCEPT
                        ![t].tests = Append(me.tests, near_zero),
                        ![t].pc = IF near_zero \/ i = Len(tested)
                                  THEN "returning" ELSE "testing"]
    /\ UNCHANGED <<tolerance, Others>>

\* thread t warns and returns the limit, or divides and returns
T_Return(t) ==
    /\ thread[t].pc = "returning"
    /\ LET me == thread[t]
           i == Len(me.tests)
       IN  thread' = [thread EXCEPT
                        ![t].pc = "returned",
                        ![t].ret = IF me.tests[i] THEN Limit(me.op, me.args, i)
                                   ELSE Quotient(me.op, me.args),
                        ![t].warned = IF me.tests[i]
                                      THEN <<Warning(me.op, i)>> ELSE <<>>]
    /\ UNCHANGED <<tolerance, Others>>

\* thread t is done with the value
T_Resume(t) ==
    /\ thread[t].pc = "returned"
    /\ thread' = [thread EXCEPT ![t] = IdleThread]
    /\ UNCHANGED <<tolerance, Others>>

NextConc ==
    \E t \in Threads :
        \/ T_Call(t)
        \/ T_Test(t)
        \/ T_Return(t)
        \/ T_Resume(t)

SpecConc == Init /\ [][NextConc]_vars

(***************************************************************************)
(* The claims.                                                             *)
(***************************************************************************)
KnownScenarios == {"black_hole", "light_speed", "quantum_vacuum",
                   "universe_expansion"}

\* C1: calculate_mu_gravitational returns a finite value at the extreme
\* scales (1e-100, 1e-94) and (1e100, 1e94).
C1_FiniteAtExtremes ==
    (op = "mu_gravitational"
       /\ args \in {<<Num(1, 0 - 100), Num(1, 0 - 94)>>, <<Num(1, 100), Num(1, 94)>>})
    => IsFinite(ret)

C3_UnknownScenarioRaises ==
    (op = "simulate_scenario" /\ results.scenario \notin KnownScenarios)
    => raised = "UnknownScenario"

\* C4: for an unrecognized name simulate_scenario makes no mu, tau or analysis
\* available, enters none of the formulations nor tau_from_mu, and emits no
\* warning.
C4_NoNumericResult ==
    (op = "simulate_scenario" /\ results.scenario \notin KnownScenarios)
    => /\ DOMAIN results \cap {"mu", "tau", "analysis"} = {}
       /\ called = <<"simulate_scenario">>
       /\ warned = <<>>
       /\ ret = None

C4_Witness ==
    /\ op = "simulate_scenario"
    /\ results.scenario = "not_a_scenario"
    /\ params.chi = Zero
    /\ DOMAIN results = {"scenario", "parameters"}

\* C5: calculate_mu_quantum returns nu/epsilon when |epsilon| >= tolerance;
\* otherwise it warns and returns +inf if nu > 0 and 0.0 for nu = 0 and for
\* every negative nu.
C5_MuQuantum ==
    op = "mu_quantum" =>
        LET nu == args[1]
            epsilon == args[2]
        IN  IF Ge(Abs(epsilon), Num(1, 0 - 10))
            THEN ret = Div(nu, epsilon) /\ warned = <<>>
            ELSE /\ Len(warned) = 1
                 /\ Sign(nu) = 1 => ret = PosInf
                 /\ Sign(nu) \in {0, 0 - 1} => ret = Zero

C5_Witness ==
    /\ op = "mu_quantum"
    /\ args = <<Num(0 - 1, 0), Num(5, 0 - 11)>>
    /\ ret = Zero
    /\ warned = <<WarnEpsilon>>

\* C6: calculate_mu_thermodynamic checks chi before t: with |chi| < tolerance
\* it returns +inf for every delta_s and every t, also when t is near zero
\* and delta_s = 0.
C6_ChiFirst ==
    (op = "mu_thermodynamic" /\ Lt(Abs(args[3]), Num(1, 0 - 10)))
    => ret = PosInf /\ warned = <<WarnChiThermo>>

C6_Witness ==
    /\ op = "mu_thermodynamic"
    /\ args = <<Zero, Zero, Num(5, 0 - 11)>>
    /\ ret = PosInf

\* C7: calculate_mu_thermodynamic with |chi| >= tolerance: a near-zero t gives
\* +inf when delta_s != 0 (negative too) and 0.0 when delta_s = 0; otherwise
\* the result is (delta_s/t)/chi.
C7_ThenT ==
    (op = "mu_thermodynamic" /\ Ge(Abs(args[3]), Num(1, 0 - 10))) =>
        LET delta_s == args[1]
            t == args[2]
            chi == args[3]
        IN  IF Lt(Abs(t), Num(1, 0 - 10))
            THEN /\ Sign(delta_s) # 0 => ret = PosInf
                 /\ Sign(delta_s) = 0 => ret = Zero
            ELSE ret = Div(Div(delta_s, t), chi)

C7_Witness ==
    /\ op = "mu_thermodynamic"
    /\ args = <<Num(0 - 1, 2), Num(5, 0 - 11), Num(5, 0)>>
    /\ ret = PosInf

\* C8: calculate_mu_state returns (psi2-psi1)/(zeta2-zeta1) when
\* |zeta2-zeta1| >= tolerance; otherwise it warns and returns +inf when
\* psi2-psi1 > 0, else 0.0.
C8_MuState ==
    op = "mu_state" =>
        LET dpsi == Sub(args[2], args[1])
            dzeta == Sub(args[4], args[3])
        IN  IF Ge(Abs(dzeta), Num(1, 0 - 10))
            THEN ret = Div(dpsi, dzeta) /\ warned = <<>>
            ELSE /\ Len(warned) = 1
                 /\ ret = IF Sign(dpsi) = 1 THEN PosInf ELSE Zero

C8_Witness ==
    /\ op = "mu_state"
    /\ args = <<One, Zero, Num(5, 0 - 11), Tol>>
    /\ ret = Zero
    /\ warned = <<WarnDeltaZeta>>

\* C9: calculate_mu_gravitational equals rho/chi for every rho and every chi
\* with |chi| >= tolerance, of either sign, |chi| = tolerance included.
C9_RhoOverChi ==
    (op = "mu_gravitational" /\ Ge(Abs(args[2]), Num(1, 0 - 10)))
    => ret = Div(args[1], args[2]) /\ warned = <<>>

C9_Witness ==
    /\ op = "mu_gravitational"
    /\ args = <<One, Num(0 - 1, 0 - 10)>>
    /\ ret = Num(0 - 1, 10)

C11_Mirror ==
    op \in {"tau_from_mu", "mu_from_tau"} =>
        LET x == args[1]
        IN  /\ IF Lt(Abs(x), Num(1, 0 - 10))
               THEN ret = PosInf /\ Len(warned) = 1
               ELSE ret = Div(One, x) /\ warned = <<>>
            /\ calculate_tau_from_mu(x).value = calculate_mu_from_tau(x).value

C11_Witness ==
    /\ op = "tau_from_mu"
    /\ args = <<Num(0 - 5, 0 - 11)>>
    /\ ret = PosInf
    /\ warned = <<WarnMu>>

\* the denominators of the call that returned, in the order the code tests them
Denominators ==
    CASE op = "mu_quantum" -> <<args[2]>>
      [] op = "mu_state" -> <<Sub(args[4], args[3])>>
      [] op = "mu_thermodynamic" -> <<args[3], args[2]>>
      [] op = "mu_gravitational" -> <<args[2]>>
      [] op \in {"tau_from_mu", "mu_from_tau"} -> <<args[1]>>
      [] OTHER -> <<>>

NumericOps == {"mu_quantum", "mu_state", "mu_thermodynamic", "mu_gravitational",
               "tau_from_mu", "mu_from_tau"}

\* C12: each of the six numeric operations emits a warning on every call that
\* takes a near-zero-denominator branch and on no call that divides.
C12_WarnedIffNearZero ==
    op \in NumericOps =>
        /\ Len(warned) <= 1
        /\ Len(warned) = 1 <=>
              \E i \in DOMAIN Denominators : Lt(Abs(Denominators[i]), Num(1, 0 - 10))

C12_Witness ==
    /\ op = "mu_thermodynamic"
    /\ args = <<Zero, Num(5, 0 - 11), Num(5, 0)>>
    /\ ret = Zero
    /\ warned = <<WarnTime>>

\* the elements of a list
Range(q) == {q[i] : i \in DOMAIN q}

BothSet == given.mu # None /\ given.tau # None

\* 1/mu in exact arithmetic, +inf for mu = 0
Reciprocal(x) == IF x = Zero THEN PosInf ELSE Div(One, x)

\* C13: the near-zero policy is uniform over every division of the evaluator,
\* the 1/mu of validate_parameters included: a denominator d is degenerate
\* (the limit +inf is used) exactly when |d| < 1e-10.
C13_UniformNearZero ==
    /\ op \in NumericOps =>
          \A i \in DOMAIN Denominators :
              Lt(Abs(Denominators[i]), Num(1, 0 - 10)) => Len(warned) = 1
    /\ (op = "validate_parameters" /\ BothSet) =>
          LET limit == IF Lt(Abs(given.mu), Num(1, 0 - 10)) THEN PosInf
                       ELSE Div(One, given.mu)
          IN  ErrMuTau \in Range(errors)
                 <=> Gt(Abs(Sub(given.tau, limit)), Num(1, 0 - 10))

\* the invariants of section 3 a record breaks
Broken ==
    {m \in {ErrEpsilon, ErrChi, ErrTime, ErrRho, ErrMuTau} :
        CASE m = ErrEpsilon -> given.epsilon # None /\ Sign(given.epsilon) < 0
          [] m = ErrChi -> given.chi # None /\ Sign(given.chi) <= 0
          [] m = ErrTime -> given.t # None /\ Sign(given.t) <= 0
          [] m = ErrRho -> given.rho # None /\ Sign(given.rho) < 0
          [] OTHER -> BothSet /\ Gt(Abs(Sub(given.tau, Reciprocal(given.mu))),
                                    Num(1, 0 - 10))}

\* C14: validate_parameters checks the five invariants independently and
\* without short-circuiting: the list holds exactly one message per broken
\* invariant, so a record that breaks k invariants yields k distinct messages.
C14_OneMessagePerViolation ==
    op = "validate_parameters" =>
        /\ Range(errors) = Broken
        /\ Len(errors) = Cardinality(Broken)

C14_Witness ==
    /\ op = "validate_parameters"
    /\ given.chi = Num(0 - 1, 0)
    /\ given.t = Num(0 - 1, 0)
    /\ given.epsilon = Num(0 - 1, 0)
    /\ given.rho = Num(0 - 1, 0)
    /\ given.mu = One /\ given.tau = Zero
    /\ errors = <<ErrEpsilon, ErrChi, ErrTime, ErrRho, ErrMuTau>>
    /\ ~is_valid

\* C15: validate_parameters returns is_valid = true if and only if the
\* returned list is empty.
C15_ValidIffEmpty ==
    op = "validate_parameters" => (is_valid <=> errors = <<>>)

C15_Witness ==
    /\ op = "validate_parameters"
    /\ given.mu = One /\ given.tau = Num(5, 0 - 1)
    /\ errors = <<ErrMuTau>>
    /\ ~is_valid

\* C16: with mu and tau both set, the inconsistency is reported exactly when
\* |tau - 1/mu| > tolerance (1/mu being +inf for mu = 0); it is never reported
\* when mu or tau is unset.
C16_Consistency ==
    op = "validate_parameters" =>
        (ErrMuTau \in Range(errors)
            <=> /\ BothSet
                /\ Gt(Abs(Sub(given.tau, Reciprocal(given.mu))), Num(1, 0 - 10)))

C16_Witness ==
    /\ op = "validate_parameters"
    /\ given.mu = Num(1, 10) /\ given.tau = Num(2, 0 - 10)
    /\ ErrMuTau \notin Range(errors)

\* the record with the fields of the other formulations cleared
WithoutOthers(p) ==
    [p EXCEPT !.nu = None, !.psi = None, !.zeta = None, !.delta_s = None]

\* C17: epsilon and rho are flagged iff set and negative, chi and t iff set
\* and not positive; an unset field is never flagged, and nu, psi, zeta and
\* delta_s do not influence the result.
C17_Thresholds ==
    op = "validate_parameters" =>
        /\ ErrEpsilon \in Range(errors)
              <=> given.epsilon # None /\ Lt(given.epsilon, Zero)
        /\ ErrRho \in Range(errors) <=> given.rho # None /\ Lt(given.rho, Zero)
        /\ ErrChi \in Range(errors) <=> given.chi # None /\ ~Gt(given.chi, Zero)
        /\ ErrTime \in Range(errors) <=> given.t # None /\ ~Gt(given.t, Zero)
        /\ validate_parameters(WithoutOthers(given)).errors = errors
        /\ validate_parameters(WithoutOthers(given)).is_valid = is_valid

C17_Witness ==
    /\ op = "validate_parameters"
    /\ given.nu = Num(0 - 1, 0) /\ given.delta_s = Num(0 - 1, 0)
    /\ given.epsilon = Zero /\ given.rho = Zero
    /\ given.chi = Zero /\ given.t = Zero
    /\ given.mu = None
    /\ errors = <<ErrChi, ErrTime>>

\* C18: validate_parameters reports violations as returned data only: for
\* every record whose set fields are numbers (mu = 0, tau = 0 and negative
\* values included) it returns a (bool, list) pair without raising and leaves
\* the record unchanged.
C18_ReportsAsData ==
    op = "validate_parameters" =>
        /\ raised = "none"
        /\ is_valid \in BOOLEAN
        /\ Range(errors) \subseteq {ErrEpsilon, ErrChi, ErrTime, ErrRho, ErrMuTau}
        /\ physics = given

C18_Witness ==
    /\ op = "validate_parameters"
    /\ given.mu = Zero /\ given.tau = Zero
    /\ given.chi = Num(0 - 1, 0)
    /\ raised = "none"
    /\ errors = <<ErrChi, ErrMuTau>>

\* the analysis string of each preset
Analysis ==
    [black_hole |-> "Time stops at singularity",
     light_speed |-> "Light experiences no time",
     quantum_vacuum |-> "Vacuum fluctuation dynamics",
     universe_expansion |-> "Cosmic expansion dynamics"]

\* C19: for each of the four presets the mapping returned by
\* simulate_scenario holds the scenario name under 'scenario', the caller's
\* keyword parameters under 'parameters', and the keys 'mu', 'tau' and
\* 'analysis', the analysis being a fixed string of the scenario name.
C19_ResultShape ==
    (op = "simulate_scenario" /\ scenario \in KnownScenarios) =>
        /\ DOMAIN results = {"scenario", "parameters", "mu", "tau", "analysis"}
        /\ results.scenario = scenario
        /\ results.parameters = params
        /\ results.analysis = Analysis[scenario]
        /\ IsNumber(results.mu) /\ IsNumber(results.tau)

C19_Witness ==
    /\ op = "simulate_scenario"
    /\ scenario = "quantum_vacuum"
    /\ params.psi_range = <<One, Zero>>
    /\ results.parameters = params
    /\ results.scenario = "quantum_vacuum"
    /\ results.analysis = "Vacuum fluctuation dynamics"

\* the value the caller passed for a key, or the preset's default
Effective(key, default) ==
    IF key \in {"psi_range", "zeta_range"}
    THEN (IF params[key] = <<None, None>> THEN default ELSE params[key])
    ELSE (IF params[key] = None THEN default ELSE params[key])

\* C20: each preset is dispatched to its formulation, missing parameters take
\* the preset's defaults, and the returned mu is the formulation's result for
\* the effective parameters.
C20_Dispatch ==
    (op = "simulate_scenario" /\ scenario \in KnownScenarios) =>
        CASE scenario = "black_hole" ->
               /\ called[2] = "calculate_mu_gravitational"
               /\ results.mu = calculate_mu_gravitational(
                                   Effective("rho", Num(1, 3)),
                                   Effective("chi", Num(1, 6))).value
          [] scenario = "light_speed" ->
               /\ called[2] = "calculate_mu_quantum"
               /\ results.mu = calculate_mu_quantum(
                                   Effective("nu", One),
                                   Effective("epsilon", Num(1, 0 - 10))).value
          [] scenario = "quantum_vacuum" ->
               LET psi == Effective("psi_range", <<Zero, One>>)
                   zeta == Effective("zeta_range", <<Zero, Num(1, 0 - 1)>>)
               IN  /\ called[2] = "calculate_mu_state"
                   /\ results.mu = calculate_mu_state(psi[1], psi[2],
                                                      zeta[1], zeta[2]).value
          [] OTHER ->
               /\ called[2] = "calculate_mu_thermodynamic"
               /\ results.mu = calculate_mu_thermodynamic(
                                   Effective("delta_s", Num(1, 23)),
                                   Effective("t", Num(1, 17)),
                                   Effective("chi", Num(1, 6))).value

C20_Witness ==
    /\ op = "simulate_scenario"
    /\ scenario = "black_hole"
    /\ params.chi = One /\ params.rho = None
    /\ results.mu = Num(1, 3)
    /\ called = <<"simulate_scenario", "calculate_mu_gravitational",
                  "calculate_tau_from_mu">>

\* C21: in every result of a known preset, tau is calculate_tau_from_mu of
\* the returned mu: 1/mu when |mu| >= tolerance and mu is finite, +infinity
\* when |mu| < tolerance, and 0 when mu is +infinity.
C21_TauOfMu ==
    (op = "simulate_scenario" /\ scenario \in KnownScenarios) =>
        /\ results.tau = calculate_tau_from_mu(results.mu).value
        /\ (IsFinite(results.mu) /\ Ge(Abs(results.mu), tolerance)) =>
               results.tau = Div(One, results.mu)
        /\ Lt(Abs(results.mu), tolerance) => results.tau = PosInf
        /\ results.mu = PosInf => results.tau = Zero

C21_Witness ==
    /\ op = "simulate_scenario"
    /\ scenario = "light_speed"
    /\ params.epsilon = Zero
    /\ results.mu = PosInf
    /\ results.tau = Zero

\* C22: the black_hole preset with chi = 1e6 and rho = 1e3, passed or taken
\* as defaults, returns mu < 1; the light_speed preset with epsilon = 1e-10
\* and nu = 1.0, passed or taken as defaults, returns mu > 1.
C22_ScenarioSanity ==
    op = "simulate_scenario" =>
        /\ ( /\ scenario = "black_hole"
             /\ Effective("chi", Num(1, 6)) = Num(1, 6)
             /\ Effective("rho", Num(1, 3)) = Num(1, 3) ) =>
               Lt(results.mu, One)
        /\ ( /\ scenario = "light_speed"
             /\ Effective("epsilon", Num(1, 0 - 10)) = Num(1, 0 - 10)
             /\ Effective("nu", One) = One ) =>
               Gt(results.mu, One)

C22_Witness ==
    /\ op = "simulate_scenario"
    /\ scenario = "light_speed"
    /\ params.epsilon = Num(1, 0 - 10)
    /\ params.nu = One
    /\ results.mu = Num(1, 10)

\* C23: the six numeric operations and the four known presets return a
\* defined number and raise nothing, whatever numeric arguments they get
\* (zero, negative and near-zero denominators included).
C23_NeverFatal ==
    /\ op \in NumericOps => (raised = "none" /\ IsNumber(ret))
    /\ (op = "simulate_scenario" /\ scenario \in KnownScenarios) =>
           /\ raised = "none"
           /\ IsNumber(results.mu)
           /\ IsNumber(results.tau)

C23_Witness ==
    /\ op = "mu_quantum"
    /\ args = <<Neg(One), Zero>>
    /\ raised = "none"
    /\ ret = Zero

\* the result of a numeric operation on a calculator as constructed
Alone(name, a) ==
    CASE name = "mu_quantum" -> calculate_mu_quantum(a[1], a[2])
      [] name = "mu_state" -> calculate_mu_state(a[1], a[2], a[3], a[4])
      [] name = "mu_thermodynamic" -> calculate_mu_thermodynamic(a[1], a[2], a[3])
      [] name = "mu_gravitational" -> calculate_mu_gravitational(a[1], a[2])
      [] name = "tau_from_mu" -> calculate_tau_from_mu(a[1])
      [] OTHER -> calculate_mu_from_tau(a[1])

\* C24: the evaluator is stateless and deterministic: after any sequence of
\* calls on one calculator the tolerance is still 1e-10, and the call that
\* returned last returned what a calculator with that tolerance returns for
\* its arguments, whatever calls were made before it.
C24_Stateless ==
    /\ tolerance = Num(1, 0 - 10)
    /\ op \in NumericOps =>
          /\ raised = "none"
          /\ Out(ret, warned) = Alone(op, args)
    /\ op = "simulate_scenario" =>
          /\ results = simulate_scenario(scenario, params).results
          /\ warned = simulate_scenario(scenario, params).warnings
    /\ op = "validate_parameters" =>
          /\ is_valid = validate_parameters(given).is_valid
          /\ errors = validate_parameters(given).errors

\* a division that follows a preset, a validation and a warning on the
\* same calculator
C24_Witness ==
    /\ op = "mu_gravitational"
    /\ args = <<One, Num(5, 0 - 1)>>
    /\ ret = Num(2, 0)
    /\ warned = <<>>
    /\ "mu" \in DOMAIN results
    /\ results.mu = PosInf
    /\ given # NoParameters
    /\ tolerance = Num(1, 0 - 10)

C26_UnitScale ==
    ( /\ op = "tau_from_mu"
      /\ previous.op = "mu_gravitational"
      /\ previous.args[1] = previous.args[2]
      /\ Ge(Abs(previous.args[2]), tolerance) ) =>
        /\ Lt(Abs(Sub(args[1], One)), Num(1, 0 - 10))
        /\ raised = "none"
        /\ Lt(Abs(Sub(ret, One)), Num(1, 0 - 10))

C26_Witness ==
    /\ op = "tau_from_mu"
    /\ previous = [op |-> "mu_gravitational", args |-> <<Num(1, 94), Num(1, 94)>>]
    /\ args = <<One>>
    /\ ret = One
    /\ warned = <<>>

\* mu = r / (2 * r_s)
HorizonFormula(mass, r) ==
    QDiv(r, QMul(Plain(Num(2, 0)), calculate_schwarzschild_radius(mass)))

\* C27: for every radius r not below the tolerance of BlackHoleSimulation
\* the rho/chi computation of calculate_mu_at_radius(mass, r) yields the
\* black-hole formula mu = r/(2*r_s).
C27_BlackHoleFormula ==
    (op = "mu_at_radius" /\ Ge(args[2], BlackHoleTolerance)) =>
        at_radius.mu = HorizonFormula(Plain(args[1]), Plain(args[2]))

\* C28: the validator agrees with the converter: a PhysicsParameters holding
\* a mu and the tau that calculate_tau_from_mu returned for it, or the mu and
\* tau of a simulate_scenario result, is not reported as inconsistent by
\* validate_parameters.
C28_ValidatorAgrees ==
    ( /\ op = "validate_parameters"
      /\ previous.op \in {"tau_from_mu", "simulate_scenario"} ) =>
        ErrMuTau \notin Range(errors)

\* the keys a preset reads
ReadKeys ==
    [black_hole |-> {"chi", "rho"},
     light_speed |-> {"epsilon", "nu"},
     quantum_vacuum |-> {"psi_range", "zeta_range"},
     universe_expansion |-> {"delta_s", "t", "chi"}]

\* the call without the keywords in keys
Without(p, keys) ==
    [key \in DOMAIN p |->
        IF key \notin keys THEN p[key]
        ELSE IF key \in RangeKeys THEN NoRange ELSE None]

\* C29: the default epsilon of the light_speed preset, 1e-10, equals the
\* tolerance, so |epsilon| < tolerance is false: the preset with defaults
\* divides, emits no warning and returns mu = 1e10 and tau = 1e-10, a tau
\* that is itself not below the tolerance.
C29_LightSpeedBoundary ==
    ( /\ op = "simulate_scenario"
      /\ scenario = "light_speed"
      /\ ~Has(params, "epsilon")
      /\ ~Has(params, "nu") ) =>
        /\ Effective("epsilon", Num(1, 0 - 10)) = tolerance
        /\ warned = <<>>
        /\ results.mu = Num(1, 10)
        /\ results.tau = Num(1, 0 - 10)
        /\ ~Lt(Abs(results.tau), tolerance)

C29_Witness ==
    /\ op = "simulate_scenario"
    /\ scenario = "light_speed"
    /\ \A key \in ParamKeys : ~Has(params, key)
    /\ warned = <<>>
    /\ results.mu = Num(1, 10)
    /\ results.tau = Num(1, 0 - 10)

\* C30: simulate_scenario echoes the caller's keyword parameters as
\* supplied: 'parameters' holds the keys the caller passed with their values
\* and no default, and a key the preset does not read changes neither mu nor
\* tau.
C30_EchoedParameters ==
    op = "simulate_scenario" =>
        /\ results.parameters = params
        /\ scenario \in KnownScenarios =>
              LET unread == ParamKeys \ ReadKeys[scenario]
                  alone == simulate_scenario(scenario, Without(params, unread))
              IN  /\ results.mu = alone.results.mu
                  /\ results.tau = alone.results.tau

\* nu is echoed by the black_hole preset, the defaults chi and rho are not
C30_Witness ==
    /\ op = "simulate_scenario"
    /\ scenario = "black_hole"
    /\ params.nu = One
    /\ results.parameters.nu = One
    /\ results.parameters.chi = None
    /\ results.parameters.rho = None
    /\ results.mu = Num(1, 0 - 3)

=============================================================================
